---- MODULE Spec2Model ----
(***************************************************************************)
(* Model of the Explore service of OggyB/muzzExercise: the decisions table *)
(* (internal/db, internal/repository), the cursor codec                    *)
(* (internal/utils/pagination), the Redis like counter (internal/cache)    *)
(* and the four gRPC handlers (internal/service/explore).                  *)
(*                                                                         *)
(* The repository layer modelled is the one service.go compiles against:   *)
(* CreateOrUpdateDecision returning only an error (the ON CONFLICT upsert).*)
(***************************************************************************)
EXTENDS Integers, Sequences, FiniteSets, TLC

VARIABLES
    rows,        \* the decisions table: a set of Decision rows
    now,         \* the clock read by gorm's NowFunc, in Unix milliseconds
    cache,       \* Redis: key (user id of likes:count:<id>) -> entry or absent
    last,        \* request and response of the handler that ran last (or the key that expired)
    nOps,        \* number of handler calls and key expiries so far
    lastPut,     \* history: liked value of the last successful PutDecision per pair
    passedOnly,  \* history: pairs (A,B) passed by A, with only B->A decisions since
    faults,      \* number of store and cache calls the environment has failed so far
    wk,          \* in-flight PutDecision calls of the concurrent workers
    order,       \* history: workers in the order their upserts committed
    pager,       \* a caller following the next tokens of GetLikers, and what it received
    everPassed   \* history: pairs (A,B) for which a pass by A was ever stored

vars == <<rows, now, cache, last, nOps, faults, lastPut, passedOnly, wk, order, pager,
          everPassed>>

----------------------------------------------------------------------------
\* Bounds of the model.

\* user identifiers are 0..MaxUser (identifiers are arbitrary uint64, 0 included)
MaxUser == 2
\* the clock takes the values 1..MaxTime
MaxTime == 2
\* at most MaxOps handler calls and key expiries in a behaviour
MaxOps == 3
\* page sizes 1..MaxLimit are tried on the repository's list queries
MaxLimit == 2
\* a caller follows at most MaxPages next tokens of one listing
MaxPages == 5
\* the environment fails at most MaxFaults store or cache calls in a behaviour
MaxFaults == 1

Users == 0..MaxUser
Pairs == {p \in Users \X Users : p[1] /= p[2]}
Limits == 1..MaxLimit
Workers == {1, 2}

\* A request identifier is a decimal string; it is modelled by the number it
\* spells, and NonNumeric stands for a string strconv.ParseUint rejects.
NonNumeric == -1
IdStrings == Users \cup {NonNumeric}

----------------------------------------------------------------------------
\* Errors.

Nil == "nil"
\* the errors a store call can return (gorm / context)
StoreErrs == {"ErrRecordNotFound", "DeadlineExceeded", "Canceled", "other"}
StoreOutcomes == {Nil} \cup StoreErrs
ErrInvalidToken == "invalid pagination token"

\* errors.Map: repo/infra error -> gRPC status code
Map(err) ==
    IF err = Nil THEN "OK"
    ELSE IF err = "ErrRecordNotFound" THEN "NotFound"
    ELSE IF err = "DeadlineExceeded" THEN "DeadlineExceeded"
    ELSE IF err = "Canceled" THEN "Canceled"
    ELSE "Internal"

\* strconv.ParseUint(s, 10, 64) on a request identifier
ParseUintOk(s) == s \in Nat

----------------------------------------------------------------------------
\* The decisions table.

Decision(a, r, v, c, u) ==
    [actor_id |-> a, recipient_id |-> r, liked |-> v, created_at |-> c, updated_at |-> u]

RowsOf(rs, a, r) == {d \in rs : d.actor_id = a /\ d.recipient_id = r}

\* Faulty variants of the upsert, against which the properties are tested:
\* a table without the primary key, ON CONFLICT DO NOTHING, and a plain INSERT.
CreateOrUpdate_NoPrimaryKey(rs, a, r, v, t) ==
    [rows |-> rs \cup {Decision(a, r, v, t, t)}, err |-> Nil]

CreateOrUpdate_DoNothing(rs, a, r, v, t) ==
    [rows |-> IF RowsOf(rs, a, r) = {} THEN rs \cup {Decision(a, r, v, t, t)} ELSE rs,
     err |-> Nil]

CreateOrUpdate_PlainInsert(rs, a, r, v, t) ==
    IF RowsOf(rs, a, r) = {}
    THEN [rows |-> rs \cup {Decision(a, r, v, t, t)}, err |-> Nil]
    ELSE [rows |-> rs, err |-> "other"]

\* Faulty variant of the upsert: a pass on an existing pair removes the row.
CreateOrUpdate_DeleteOnPass(rs, a, r, v, t) ==
    IF RowsOf(rs, a, r) = {}
    THEN [rows |-> rs \cup {Decision(a, r, v, t, t)}, err |-> Nil]
    ELSE IF ~ v THEN [rows |-> rs \ RowsOf(rs, a, r), err |-> Nil]
    ELSE [rows |-> {IF d.actor_id = a /\ d.recipient_id = r
                    THEN [d EXCEPT !.liked = v] ELSE d : d \in rs},
          err |-> Nil]

\* Faulty variant of the upsert: the UPDATE runs without its WHERE on the pair
\* and assigns liked on every row of the table.
CreateOrUpdate_WholeTable(rs, a, r, v, t) ==
    [rows |-> {[d EXCEPT !.liked = v] : d \in rs}
                  \cup (IF RowsOf(rs, a, r) = {} THEN {Decision(a, r, v, t, t)} ELSE {}),
     err |-> Nil]

\* repository.CreateOrUpdateDecision: INSERT ... ON CONFLICT (actor_id,
\* recipient_id) DO UPDATE SET liked. gorm stamps created_at and updated_at
\* with NowFunc() on the inserted row; on conflict only liked is assigned.
CreateOrUpdateDecision(rs, a, r, v, t) ==
    IF RowsOf(rs, a, r) = {}
    THEN [rows |-> rs \cup {Decision(a, r, v, t, t)}, err |-> Nil]
    ELSE [rows |-> {IF d.actor_id = a /\ d.recipient_id = r
                    THEN [d EXCEPT !.liked = v] ELSE d : d \in rs},
          err |-> Nil]

\* repository.HasLiked: COUNT(*) > 0 over actor_id = a, recipient_id = r, liked
HasLiked(rs, a, r) == \E d \in rs : d.actor_id = a /\ d.recipient_id = r /\ d.liked

\* Faulty variant of the likers predicate: the NOT EXISTS (pass) clause left out.
LikersWhere_NoExclusion(rs, t) ==
    {d \in rs : d.recipient_id = t /\ d.liked}

\* GetLikers' WHERE clauses (without the cursor): liked rows into t whose
\* actor t has not passed.
LikersWhere(rs, t) ==
    {d \in rs : /\ d.recipient_id = t /\ d.liked
                /\ ~ \E d2 \in rs : /\ d2.actor_id = t
                                    /\ d2.recipient_id = d.actor_id
                                    /\ ~ d2.liked}

\* Faulty variant of the new-likers predicate: the NOT EXISTS (pass) clause left out.
NewLikersWhere_NoExclusion(rs, t) ==
    {d \in rs : /\ d.recipient_id = t /\ d.liked
                /\ ~ \E d1 \in rs : /\ d1.actor_id = d.recipient_id
                                    /\ d1.recipient_id = d.actor_id
                                    /\ d1.liked}

\* Faulty variant of the new-likers predicate: the NOT EXISTS (like back)
\* clause left out.
NewLikersWhere_NoMutualFilter(rs, t) ==
    {d \in rs : /\ d.recipient_id = t /\ d.liked
                /\ ~ \E d2 \in rs : /\ d2.actor_id = t
                                    /\ d2.recipient_id = d.actor_id
                                    /\ ~ d2.liked}

\* GetNewLikers' WHERE clauses (without the cursor): additionally no liked
\* row from t back to the actor.
NewLikersWhere(rs, t) ==
    {d \in rs : /\ d.recipient_id = t /\ d.liked
                /\ ~ \E d1 \in rs : /\ d1.actor_id = d.recipient_id
                                    /\ d1.recipient_id = d.actor_id
                                    /\ d1.liked
                /\ ~ \E d2 \in rs : /\ d2.actor_id = t
                                    /\ d2.recipient_id = d.actor_id
                                    /\ ~ d2.liked}

\* Faulty variant of the count: the NOT EXISTS (pass) clause left out.
CountLikers_NoExclusion(rs, t) ==
    Cardinality({d \in rs : d.recipient_id = t /\ d.liked})

\* repository.CountLikers: COUNT(*) over the same predicate as GetLikers
CountLikers(rs, t) ==
    Cardinality({d \in rs : /\ d.recipient_id = t /\ d.liked
                            /\ ~ \E d2 \in rs : /\ d2.actor_id = t
                                                /\ d2.recipient_id = d.actor_id
                                                /\ ~ d2.liked})

----------------------------------------------------------------------------
\* The cursor codec (internal/utils/pagination).

\* A pagination token as the repository receives it: a nil pointer, the empty
\* string, the URL-safe base64 of a JSON object, or a string that is not one.
NilToken == [kind |-> "nil"]
EmptyToken == [kind |-> "empty"]
GarbageToken == [kind |-> "garbage"]
\* base64 of a JSON text cut short, which json.Unmarshal rejects
TruncatedToken == [kind |-> "b64truncated"]
\* base64 of the JSON text null, which json.Unmarshal accepts and ignores
NullJSONToken == [kind |-> "b64null"]
\* base64 of a JSON object without the keys of a Cursor, such as {"foo":1}
ForeignObjectToken == [kind |-> "b64json", json |-> [foo |-> 1]]

\* pagination.Cursor
Cursor(a, u) == [ActorID |-> a, UpdatedUnix |-> u]

\* json.Marshal of a Cursor: updated_unix carries omitempty
MarshalCursor(c) ==
    IF c.UpdatedUnix = 0
    THEN [actor_id |-> c.ActorID]
    ELSE [actor_id |-> c.ActorID, updated_unix |-> c.UpdatedUnix]

\* pagination.Encode
Encode(c) == [kind |-> "b64json", json |-> MarshalCursor(c)]

\* Faulty variant of the decoding: the timestamp read under another key.
UnmarshalCursor_WrongKey(obj) ==
    Cursor(IF "actor_id" \in DOMAIN obj THEN obj.actor_id ELSE 0,
           IF "updated_at" \in DOMAIN obj THEN obj.updated_at ELSE 0)

\* json.Unmarshal into a zero Cursor: an absent key leaves the zero value
UnmarshalCursor(obj) ==
    Cursor(IF "actor_id" \in DOMAIN obj THEN obj.actor_id ELSE 0,
           IF "updated_unix" \in DOMAIN obj THEN obj.updated_unix ELSE 0)

\* getString followed by pagination.Decode: the empty string gives the zero
\* cursor; otherwise an error of base64 decoding or of json.Unmarshal gives
\* "invalid pagination token", and whatever json.Unmarshal accepts is returned
Decode(token) ==
    IF token.kind \in {"nil", "empty"} THEN [cursor |-> Cursor(0, 0), err |-> Nil]
    ELSE IF token.kind = "b64json" THEN [cursor |-> UnmarshalCursor(token.json), err |-> Nil]
    ELSE IF token.kind = "b64null" THEN [cursor |-> Cursor(0, 0), err |-> Nil]
    ELSE [cursor |-> Cursor(0, 0), err |-> ErrInvalidToken]

----------------------------------------------------------------------------
\* The list queries.

\* ORDER BY updated_at DESC, actor_id DESC: d comes at or before e
OrderedBefore(d, e) ==
    \/ d.updated_at > e.updated_at
    \/ d.updated_at = e.updated_at /\ d.actor_id >= e.actor_id

RECURSIVE Sorted(_)
Sorted(S) ==
    IF S = {} THEN <<>>
    ELSE LET first == CHOOSE d \in S : \A e \in S : OrderedBefore(d, e)
         IN  <<first>> \o Sorted(S \ {first})

\* LIMIT n (with n <= 0 the caller panics whatever the rows found)
Limit(seq, n) == SubSeq(seq, 1, IF Len(seq) < n THEN Len(seq) ELSE n)

\* the cursor clause of GetLikers / GetNewLikers
ApplyCursor(S, c) ==
    IF c.ActorID > 0 /\ c.UpdatedUnix > 0
    THEN {d \in S : \/ d.updated_at < c.UpdatedUnix
                    \/ d.updated_at = c.UpdatedUnix /\ d.actor_id < c.ActorID}
    ELSE S

\* the outcome of a call that panics (index out of range)
Panic == "panic"

\* the tail shared by both list queries: run the query with LIMIT limit+1,
\* cut the page to limit rows and build the next token from the last one kept.
\* The limit is not validated: with limit <= 0 and more than limit rows found,
\* decisions[limit-1] indexes before the slice and the call panics.
Page(S, token, limit, qerr) ==
    LET dec == Decode(token)
        found == Limit(Sorted(ApplyCursor(S, dec.cursor)), limit + 1)
    IN  IF dec.err /= Nil THEN [decisions |-> <<>>, next |-> NilToken, err |-> dec.err]
        ELSE IF qerr /= Nil THEN [decisions |-> <<>>, next |-> NilToken, err |-> qerr]
        ELSE IF Len(found) > limit /\ limit - 1 < 0
        THEN [decisions |-> <<>>, next |-> NilToken, err |-> Panic]
        ELSE IF Len(found) > limit
        THEN [decisions |-> SubSeq(found, 1, limit),
              next |-> Encode(Cursor(found[limit].actor_id, found[limit].updated_at)),
              err |-> Nil]
        ELSE [decisions |-> found, next |-> NilToken, err |-> Nil]

\* repository.GetLikers; qerr is the outcome of the store query
GetLikers(rs, t, token, limit, qerr) == Page(LikersWhere(rs, t), token, limit, qerr)

\* repository.GetNewLikers
GetNewLikers(rs, t, token, limit, qerr) == Page(NewLikersWhere(rs, t), token, limit, qerr)

\* the actor ids of a page, as the handlers copy them into the response
ActorsOf(decisions) == [i \in 1..Len(decisions) |-> decisions[i].actor_id]

----------------------------------------------------------------------------
\* The Redis like counter (internal/cache). A value is the decimal string of
\* an integer and is modelled by that integer; ttl 0 means no expiry.

Hour == 3600

NoEntry == [present |-> FALSE, val |-> 0, ttl |-> 0]

\* RedisCache.KeyForLikeCount: "likes:count:<id>", one key per user id
KeyForLikeCount(userID) == userID

\* Faulty variant of Get: a failed call answered with the string "0".
RedisGet_ErrorAsZero(c, key, ok) ==
    IF ok THEN [hit |-> c[key].present, val |-> c[key].val] ELSE [hit |-> TRUE, val |-> 0]

\* RedisCache.Get: the stored string, or "" with redis.Nil when the key is absent
\* or the call fails; hit tells whether a non-empty string came back
RedisGet(c, key, ok) == [hit |-> ok /\ c[key].present, val |-> c[key].val]

\* RedisCache.Set with a ttl
RedisSet(c, key, value, ttl, ok) ==
    IF ok THEN [c EXCEPT ![key] = [present |-> TRUE, val |-> value, ttl |-> ttl]] ELSE c

\* RedisCache.Incr / Decr: INCR / DECR create an absent key at 0, without expiry
RedisIncrBy(c, key, delta, ok) ==
    IF ~ ok THEN c
    ELSE IF c[key].present THEN [c EXCEPT ![key].val = @ + delta]
    ELSE [c EXCEPT ![key] = [present |-> TRUE, val |-> delta, ttl |-> 0]]

\* Client.Expire: sets the ttl of a present key, does nothing to an absent one
RedisExpire(c, key, ttl, ok) ==
    IF ok /\ c[key].present THEN [c EXCEPT ![key].ttl = ttl] ELSE c

\* Faulty variant of the parse: strconv.ParseInt, which accepts a negative number.
ParseCached_Signed(value) == value \in Int

\* strconv.ParseUint on a cached value: a negative number does not parse
ParseCachedOk(value) == value >= 0

----------------------------------------------------------------------------
\* The handlers of the Explore service, each as one atomic request.

\* the page size ListLikedYou and ListNewLikedYou pass to the repository
ServicePageSize == 5

\* The record of a request and its response. Besides the response it keeps what
\* the environment did to the request's calls: got is what the cache Get found
\* ("absent", "negative", "value", or "error" when the call failed), cacheErr
\* whether a cache call failed, storeFailed whether a store call failed and
\* storeErr with which error; malformed tells that the pagination token sent was
\* not base64 or not JSON; fromCache tells that the count was answered without
\* a store query.
NoResponse ==
    [op |-> "none", actor |-> 0, recipient |-> 0, liked |-> FALSE, code |-> "OK",
     mutual |-> FALSE, lookup |-> FALSE, count |-> 0, likers |-> <<>>,
     next |-> NilToken, fromCache |-> FALSE, prev |-> "absent",
     got |-> "none", cacheErr |-> FALSE, storeFailed |-> FALSE, storeErr |-> Nil,
     malformed |-> FALSE,
     cursor |-> Cursor(0, 0), decoded |-> Cursor(0, 0), err |-> Nil]

\* Faulty variant of the validation: the self-decision check left out.
ValidatePut_NoSelfCheck(actorStr, recipStr) ==
    IF ~ ParseUintOk(actorStr) \/ ~ ParseUintOk(recipStr) THEN "InvalidArgument" ELSE "OK"

\* PutDecision's validation: both identifiers parse and differ
ValidatePut(actorStr, recipStr) ==
    IF ~ ParseUintOk(actorStr) THEN "InvalidArgument"
    ELSE IF ~ ParseUintOk(recipStr) THEN "InvalidArgument"
    ELSE IF actorStr = recipStr THEN "InvalidArgument"
    ELSE "OK"

\* Faulty variant of the cache update: Incr whatever the decision.
AdjustCounter_AlwaysIncr(c, recipient, liked, adjOk, expOk) ==
    RedisExpire(RedisIncrBy(c, KeyForLikeCount(recipient), 1, adjOk),
                KeyForLikeCount(recipient), Hour, expOk)

\* Faulty variant of the cache update: the counter of every user adjusted.
AdjustCounter_EveryKey(c, recipient, liked, adjOk, expOk) ==
    [k \in DOMAIN c |->
        RedisExpire(RedisIncrBy(c, k, IF liked THEN 1 ELSE -1, adjOk), k, Hour, expOk)[k]]

\* PutDecision's cache update: Incr or Decr, then Expire
AdjustCounter(c, recipient, liked, adjOk, expOk) ==
    RedisExpire(RedisIncrBy(c, KeyForLikeCount(recipient), IF liked THEN 1 ELSE -1, adjOk),
                KeyForLikeCount(recipient), Hour, expOk)

\* PutDecision's mutual check: HasLiked only for a like, its error dropped
\* (on an error the count read is 0, so mutual is false)
MutualCheck(rs, actor, recipient, liked, hlErr) ==
    liked /\ hlErr = Nil /\ HasLiked(rs, recipient, actor)

\* history: the pairs passed and then left alone except by the passed user
PassedOnlyAfter(po, actor, recipient, liked) ==
    {p \in po : p = <<recipient, actor>>} \cup (IF liked THEN {} ELSE {<<actor, recipient>>})

\* the number of failed calls among the outcomes of a request's store and cache calls
Failures(storeOutcomes, cacheOks) ==
    Cardinality({i \in DOMAIN storeOutcomes : storeOutcomes[i] /= Nil})
        + Cardinality({i \in DOMAIN cacheOks : ~ cacheOks[i]})

\* history: what the table holds for a pair
PairState(rs, a, r) ==
    IF RowsOf(rs, a, r) = {} THEN "absent"
    ELSE IF \E d \in RowsOf(rs, a, r) : d.liked THEN "like" ELSE "pass"

\* Faulty variant of the handler's error return: a failed cache call surfaced.
PutError_CacheSurfaced(upErr, repoErr, adjOk, expOk) ==
    IF upErr /= Nil THEN upErr
    ELSE IF repoErr /= Nil THEN repoErr
    ELSE IF ~ adjOk \/ ~ expOk THEN "other"
    ELSE Nil

\* the error PutDecision returns after validation: that of the upsert only; the
\* results of Incr / Decr and Expire are assigned to _
PutError(upErr, repoErr, adjOk, expOk) ==
    IF upErr /= Nil THEN upErr ELSE repoErr

\* Service.PutDecision. upErr and hlErr are the outcomes of the two store
\* calls, adjOk and expOk those of the two cache calls.
PutDecision(actorStr, recipStr, liked, upErr, adjOk, expOk, hlErr) ==
    LET req == [NoResponse EXCEPT !.op = "put", !.actor = actorStr,
                                  !.recipient = recipStr, !.liked = liked,
                                  !.cacheErr = ~ adjOk \/ ~ expOk,
                                  !.storeFailed = upErr /= Nil \/ hlErr /= Nil,
                                  !.storeErr = IF upErr /= Nil THEN upErr ELSE hlErr]
        up == CreateOrUpdateDecision(rows, actorStr, recipStr, liked, now)
        err == PutError(upErr, up.err, adjOk, expOk)
    IN  /\ nOps < MaxOps
        /\ nOps' = nOps + 1
        /\ faults' = faults + Failures(<<upErr, hlErr>>, <<adjOk, expOk>>)
        /\ UNCHANGED <<now, wk, order, pager>>
        /\ IF ValidatePut(actorStr, recipStr) /= "OK"
           THEN /\ last' = [req EXCEPT !.code = ValidatePut(actorStr, recipStr)]
                /\ UNCHANGED <<rows, cache, lastPut, passedOnly, everPassed>>
           ELSE IF err /= Nil
           THEN /\ last' = [req EXCEPT !.code = Map(err)]
                /\ UNCHANGED <<rows, cache, lastPut, passedOnly, everPassed>>
           ELSE /\ rows' = up.rows
                /\ cache' = AdjustCounter(cache, recipStr, liked, adjOk, expOk)
                /\ last' = [req EXCEPT !.code = "OK",
                                       !.prev = PairState(rows, actorStr, recipStr),
                                       !.lookup = liked,
                                       !.mutual = MutualCheck(up.rows, actorStr, recipStr,
                                                              liked, hlErr)]
                /\ lastPut' = [lastPut EXCEPT ![<<actorStr, recipStr>>] =
                                   IF liked THEN "like" ELSE "pass"]
                /\ passedOnly' = PassedOnlyAfter(passedOnly, actorStr, recipStr, liked)
                /\ everPassed' = everPassed \cup (IF liked THEN {} ELSE {<<actorStr, recipStr>>})

\* Service.CountLikedYou: cache first, the store on a miss, then Set
CountLikedYou(recipStr, getOk, expOk, cntErr, setOk) ==
    LET key == KeyForLikeCount(recipStr)
        got == RedisGet(cache, key, getOk)
        req == [NoResponse EXCEPT !.op = "count", !.recipient = recipStr,
                                  !.got = IF ~ ParseUintOk(recipStr) THEN "none"
                                          ELSE IF ~ getOk THEN "error"
                                          ELSE IF ~ cache[key].present THEN "absent"
                                          ELSE IF cache[key].val < 0 THEN "negative"
                                          ELSE "value",
                                  !.cacheErr = ~ getOk \/ ~ expOk \/ ~ setOk,
                                  !.storeFailed = cntErr /= Nil, !.storeErr = cntErr]
        count == CountLikers(rows, recipStr)
    IN  /\ nOps < MaxOps
        /\ nOps' = nOps + 1
        /\ faults' = faults + Failures(<<cntErr>>, <<getOk, expOk, setOk>>)
        /\ UNCHANGED <<rows, now, lastPut, passedOnly, everPassed, wk, order, pager>>
        /\ IF ~ ParseUintOk(recipStr)
           THEN /\ last' = [req EXCEPT !.code = "InvalidArgument"]
                /\ UNCHANGED cache
           ELSE IF got.hit /\ ParseCachedOk(got.val)
           THEN /\ cache' = RedisExpire(cache, key, Hour, expOk)
                /\ last' = [req EXCEPT !.count = got.val, !.fromCache = TRUE]
           ELSE IF cntErr /= Nil
           THEN /\ last' = [req EXCEPT !.code = Map(cntErr)]
                /\ UNCHANGED cache
           ELSE /\ cache' = RedisSet(cache, key, count, Hour, setOk)
                /\ last' = [req EXCEPT !.count = count]

\* the part ListLikedYou and ListNewLikedYou share, res being the repository's answer
ListResponse(req, res) ==
    IF res.err /= Nil THEN [req EXCEPT !.code = Map(res.err)]
    ELSE [req EXCEPT !.likers = ActorsOf(res.decisions), !.next = res.next]

\* Service.ListLikedYou
ListLikedYou(recipStr, token, qerr) ==
    LET req == [NoResponse EXCEPT !.op = "list", !.recipient = recipStr,
                                  !.storeFailed = qerr /= Nil, !.storeErr = qerr,
                                  !.malformed = token.kind \in {"garbage", "b64truncated"}] IN
    /\ nOps < MaxOps
    /\ nOps' = nOps + 1
    /\ faults' = faults + Failures(<<qerr>>, <<>>)
    /\ UNCHANGED <<rows, now, cache, lastPut, passedOnly, everPassed, wk, order, pager>>
    /\ last' = IF ~ ParseUintOk(recipStr) THEN [req EXCEPT !.code = "InvalidArgument"]
               ELSE ListResponse(req, GetLikers(rows, recipStr, token, ServicePageSize, qerr))

\* Service.ListNewLikedYou
ListNewLikedYou(recipStr, token, qerr) ==
    LET req == [NoResponse EXCEPT !.op = "listnew", !.recipient = recipStr,
                                  !.storeFailed = qerr /= Nil, !.storeErr = qerr,
                                  !.malformed = token.kind \in {"garbage", "b64truncated"}] IN
    /\ nOps < MaxOps
    /\ nOps' = nOps + 1
    /\ faults' = faults + Failures(<<qerr>>, <<>>)
    /\ UNCHANGED <<rows, now, cache, lastPut, passedOnly, everPassed, wk, order, pager>>
    /\ last' = IF ~ ParseUintOk(recipStr) THEN [req EXCEPT !.code = "InvalidArgument"]
               ELSE ListResponse(req, GetNewLikers(rows, recipStr, token, ServicePageSize, qerr))

----------------------------------------------------------------------------
\* The environment.

\* time passes: NowFunc returns a later millisecond
Tick ==
    /\ now < MaxTime
    /\ now' = now + 1
    /\ UNCHANGED <<rows, cache, last, nOps, faults, lastPut, passedOnly, everPassed, wk, order, pager>>

\* Redis drops a key whose ttl has run out
KeyExpires(key) ==
    /\ nOps < MaxOps
    /\ nOps' = nOps + 1
    /\ cache[key].present
    /\ cache[key].ttl > 0
    /\ cache' = [cache EXCEPT ![key] = NoEntry]
    /\ last' = [NoResponse EXCEPT !.op = "expired", !.recipient = key]
    /\ UNCHANGED <<rows, now, faults, lastPut, passedOnly, everPassed, wk, order, pager>>

\* the tokens of all cursors over the model's users and times
CursorTokens == {Encode(Cursor(a, u)) : a \in Users, u \in 0..MaxTime}

\* the tokens a caller sends to the handlers: none, the empty string, a string
\* that is no token, and the encodings of some cursors
TokenInputs ==
    {NilToken, EmptyToken, GarbageToken, TruncatedToken, NullJSONToken, ForeignObjectToken}
        \cup {Encode(Cursor(a, u)) : a \in {0, MaxUser}, u \in {0, MaxTime}}

\* the outcomes the environment may still give a store call / a cache call
StoreOutcomesLeft == IF faults < MaxFaults THEN StoreOutcomes ELSE {Nil}
CacheOutcomesLeft == IF faults < MaxFaults THEN BOOLEAN ELSE {TRUE}

\* A worker's request; adjusted and looked tell whether it has made its cache
\* adjustment and its HasLiked query, found is what its read of the pair gave,
\* reported the previous value its upsert returned, and before the state of
\* the pair immediately before its write took effect. For a CountLikedYou
\* request counted tells whether its Get was a hit or a miss and count is the
\* number it read from the cache or the store.
IdleWorker == [pc |-> "idle", actor |-> 0, recipient |-> 0, liked |-> FALSE,
               code |-> "OK", mutual |-> FALSE, adjusted |-> FALSE, looked |-> FALSE,
               found |-> "unread", reported |-> "none", before |-> "none",
               counted |-> "no", count |-> 0]

\* the caller of the list query before its first request
NoPager == [phase |-> "idle", recipient |-> 0, limit |-> 1, token |-> NilToken,
            seen |-> <<>>, pages |-> 0, rows0 |-> {}, changed |-> {}]

Init ==
    /\ rows = {}
    /\ now = 1
    /\ cache = [k \in Users |-> NoEntry]
    /\ last = NoResponse
    /\ nOps = 0
    /\ faults = 0
    /\ lastPut = [p \in Pairs |-> "none"]
    /\ passedOnly = {}
    /\ wk = [w \in Workers |-> IdleWorker]
    /\ order = <<>>
    /\ pager = NoPager
    /\ everPassed = {}

\* a request to PutDecision with the outcomes of the calls it goes on to make
PutRequest ==
    \E a \in IdStrings, r \in IdStrings, v \in BOOLEAN :
        IF ValidatePut(a, r) /= "OK"
        THEN PutDecision(a, r, v, Nil, TRUE, TRUE, Nil)
        ELSE \E upErr \in StoreOutcomesLeft :
                IF upErr /= Nil
                THEN PutDecision(a, r, v, upErr, TRUE, TRUE, Nil)
                ELSE \E adjOk \in CacheOutcomesLeft, expOk \in CacheOutcomesLeft,
                        hlErr \in (IF v THEN StoreOutcomesLeft ELSE {Nil}) :
                         /\ Failures(<<hlErr>>, <<adjOk, expOk>>) <= MaxFaults - faults
                         /\ PutDecision(a, r, v, Nil, adjOk, expOk, hlErr)

\* a request to CountLikedYou with the outcomes of the calls it goes on to make
CountRequest ==
    \E r \in IdStrings :
        IF ~ ParseUintOk(r)
        THEN CountLikedYou(r, TRUE, TRUE, Nil, TRUE)
        ELSE \E getOk \in CacheOutcomesLeft :
                IF RedisGet(cache, KeyForLikeCount(r), getOk).hit
                   /\ ParseCachedOk(cache[KeyForLikeCount(r)].val)
                THEN \E expOk \in CacheOutcomesLeft :
                        /\ Failures(<<>>, <<getOk, expOk>>) <= MaxFaults - faults
                        /\ CountLikedYou(r, getOk, expOk, Nil, TRUE)
                ELSE \E cntErr \in StoreOutcomesLeft :
                        \E setOk \in (IF cntErr = Nil THEN CacheOutcomesLeft ELSE {TRUE}) :
                            /\ Failures(<<cntErr>>, <<getOk, setOk>>) <= MaxFaults - faults
                            /\ CountLikedYou(r, getOk, TRUE, cntErr, setOk)

\* a request to one of the list handlers
ListRequest ==
    \E r \in IdStrings, token \in TokenInputs :
        \E qerr \in (IF ParseUintOk(r) /\ Decode(token).err = Nil
                     THEN StoreOutcomesLeft ELSE {Nil}) :
            ListLikedYou(r, token, qerr)

ListNewRequest ==
    \E r \in IdStrings, token \in TokenInputs :
        \E qerr \in (IF ParseUintOk(r) /\ Decode(token).err = Nil
                     THEN StoreOutcomesLeft ELSE {Nil}) :
            ListNewLikedYou(r, token, qerr)

Next ==
    \/ PutRequest
    \/ CountRequest
    \/ ListRequest
    \/ ListNewRequest
    \/ Tick
    \/ \E k \in Users : KeyExpires(k)

Spec == Init /\ [][Next]_vars

----------------------------------------------------------------------------
\* Two PutDecision requests served concurrently, one per worker, each running
\* the statements of the handler in order; a store or cache call is one step.

\* the handler's validation, at the start of the request
WStart(w, actorStr, recipStr, liked) ==
    /\ wk[w].pc = "idle"
    /\ wk' = [wk EXCEPT ![w] =
                [IdleWorker EXCEPT
                    !.pc = IF ValidatePut(actorStr, recipStr) = "OK" THEN "upsert" ELSE "done",
                    !.actor = actorStr, !.recipient = recipStr, !.liked = liked,
                    !.code = ValidatePut(actorStr, recipStr)]]
    /\ UNCHANGED <<rows, now, cache, last, nOps, faults, lastPut, passedOnly, everPassed, order, pager>>

\* decisionRepo.CreateOrUpdateDecision: one SQL statement
WUpsert(w) ==
    LET me == wk[w]
        up == CreateOrUpdateDecision(rows, me.actor, me.recipient, me.liked, now)
    IN  /\ me.pc = "upsert"
        /\ IF up.err /= Nil
           THEN /\ wk' = [wk EXCEPT ![w].pc = "done", ![w].code = Map(up.err)]
                /\ UNCHANGED <<rows, lastPut, passedOnly, everPassed, order>>
           ELSE /\ wk' = [wk EXCEPT ![w].pc = "adjust"]
                /\ rows' = up.rows
                /\ order' = Append(order, w)
                /\ lastPut' = [lastPut EXCEPT ![<<me.actor, me.recipient>>] =
                                   IF me.liked THEN "like" ELSE "pass"]
                /\ passedOnly' = PassedOnlyAfter(passedOnly, me.actor, me.recipient, me.liked)
                /\ everPassed' = everPassed
                                      \cup (IF me.liked THEN {} ELSE {<<me.actor, me.recipient>>})
        /\ UNCHANGED <<now, cache, last, nOps, faults, pager>>

\* RedisCache.Incr or Decr
WAdjust(w) ==
    /\ wk[w].pc = "adjust"
    /\ cache' = RedisIncrBy(cache, KeyForLikeCount(wk[w].recipient),
                            IF wk[w].liked THEN 1 ELSE -1, TRUE)
    /\ wk' = [wk EXCEPT ![w].pc = "expire", ![w].adjusted = TRUE]
    /\ UNCHANGED <<rows, now, last, nOps, faults, lastPut, passedOnly, everPassed, order, pager>>

\* Client.Expire
WExpire(w) ==
    /\ wk[w].pc = "expire"
    /\ cache' = RedisExpire(cache, KeyForLikeCount(wk[w].recipient), Hour, TRUE)
    /\ wk' = [wk EXCEPT ![w].pc = IF wk[w].liked THEN "haslike" ELSE "done"]
    /\ UNCHANGED <<rows, now, last, nOps, faults, lastPut, passedOnly, everPassed, order, pager>>

\* decisionRepo.HasLiked, then the response
WHasLiked(w) ==
    /\ wk[w].pc = "haslike"
    /\ wk' = [wk EXCEPT ![w].pc = "done", ![w].looked = TRUE,
                        ![w].mutual = MutualCheck(rows, wk[w].actor, wk[w].recipient,
                                                  wk[w].liked, Nil)]
    /\ UNCHANGED <<rows, now, cache, last, nOps, faults, lastPut, passedOnly, everPassed, order, pager>>

NextConc ==
    \/ \E w \in Workers, a \in Users, r \in Users, v \in BOOLEAN : WStart(w, a, r, v)
    \/ \E w \in Workers : WUpsert(w)
    \/ \E w \in Workers : WAdjust(w)
    \/ \E w \in Workers : WExpire(w)
    \/ \E w \in Workers : WHasLiked(w)
    \/ Tick

SpecConc == Init /\ [][NextConc]_vars

----------------------------------------------------------------------------
\* The concurrent PutDecision requests when the upsert can fail.

\* Faulty variant of the failing upsert: the error ignored like a cache error.
WUpsertFails_Ignored(w, err) ==
    /\ wk[w].pc = "upsert"
    /\ wk' = [wk EXCEPT ![w].pc = "adjust"]
    /\ UNCHANGED <<rows, now, cache, last, nOps, faults, lastPut, passedOnly, everPassed,
                   order, pager>>

\* decisionRepo.CreateOrUpdateDecision returning an error: the handler returns
\* its mapping at once
WUpsertFails(w, err) ==
    /\ wk[w].pc = "upsert"
    /\ wk' = [wk EXCEPT ![w].pc = "done", ![w].code = Map(err)]
    /\ UNCHANGED <<rows, now, cache, last, nOps, faults, lastPut, passedOnly, everPassed,
                   order, pager>>

\* decisionRepo.HasLiked returning an error: the handler drops it and answers
\* with mutual as HasLiked left it, false
WHasLikedFails(w, err) ==
    /\ wk[w].pc = "haslike"
    /\ wk' = [wk EXCEPT ![w].pc = "done", ![w].looked = TRUE,
                        ![w].mutual = MutualCheck(rows, wk[w].actor, wk[w].recipient,
                                                  wk[w].liked, err)]
    /\ UNCHANGED <<rows, now, cache, last, nOps, faults, lastPut, passedOnly, everPassed,
                   order, pager>>

NextConcF ==
    \/ \E w \in Workers, a \in Users, r \in Users, v \in BOOLEAN : WStart(w, a, r, v)
    \/ \E w \in Workers : WUpsert(w)
    \/ \E w \in Workers, err \in StoreErrs : WUpsertFails(w, err)
    \/ \E w \in Workers, err \in StoreErrs : WHasLikedFails(w, err)
    \/ \E w \in Workers : WAdjust(w)
    \/ \E w \in Workers : WExpire(w)
    \/ \E w \in Workers : WHasLiked(w)
    \/ Tick

SpecConcF == Init /\ [][NextConcF]_vars

----------------------------------------------------------------------------
\* CountLikedYou requests served concurrently with PutDecision requests: each
\* cache or store call of the handler is one step. The recipient is a number
\* that parses and no call fails.

\* the request arrives; the key is built from the recipient
CStart(w, recipStr) ==
    /\ wk[w].pc = "idle"
    /\ wk' = [wk EXCEPT ![w] = [IdleWorker EXCEPT !.pc = "get", !.recipient = recipStr]]
    /\ UNCHANGED <<rows, now, cache, last, nOps, faults, lastPut, passedOnly, everPassed,
                   order, pager>>

\* RedisCache.Get and strconv.ParseUint of what it found
CGet(w) ==
    LET got == RedisGet(cache, KeyForLikeCount(wk[w].recipient), TRUE) IN
    /\ wk[w].pc = "get"
    /\ wk' = [wk EXCEPT ![w] =
                IF got.hit /\ ParseCachedOk(got.val)
                THEN [wk[w] EXCEPT !.pc = "refresh", !.counted = "hit", !.count = got.val]
                ELSE [wk[w] EXCEPT !.pc = "count", !.counted = "miss"]]
    /\ UNCHANGED <<rows, now, cache, last, nOps, faults, lastPut, passedOnly, everPassed,
                   order, pager>>

\* on a hit: Client.Expire, then the cached number is answered
CExpire(w) ==
    /\ wk[w].pc = "refresh"
    /\ cache' = RedisExpire(cache, KeyForLikeCount(wk[w].recipient), Hour, TRUE)
    /\ wk' = [wk EXCEPT ![w].pc = "done"]
    /\ UNCHANGED <<rows, now, last, nOps, faults, lastPut, passedOnly, everPassed,
                   order, pager>>

\* on a miss: decisionRepo.CountLikers
CCount(w) ==
    /\ wk[w].pc = "count"
    /\ wk' = [wk EXCEPT ![w].pc = "set", ![w].count = CountLikers(rows, wk[w].recipient)]
    /\ UNCHANGED <<rows, now, cache, last, nOps, faults, lastPut, passedOnly, everPassed,
                   order, pager>>

\* RedisCache.Set of the number counted, then it is answered
CSet(w) ==
    /\ wk[w].pc = "set"
    /\ cache' = RedisSet(cache, KeyForLikeCount(wk[w].recipient), wk[w].count, Hour, TRUE)
    /\ wk' = [wk EXCEPT ![w].pc = "done"]
    /\ UNCHANGED <<rows, now, last, nOps, faults, lastPut, passedOnly, everPassed,
                   order, pager>>

NextConcCount ==
    \/ \E w \in Workers, a \in Users, r \in Users, v \in BOOLEAN : WStart(w, a, r, v)
    \/ \E w \in Workers : WUpsert(w)
    \/ \E w \in Workers : WAdjust(w)
    \/ \E w \in Workers : WExpire(w)
    \/ \E w \in Workers : WHasLiked(w)
    \/ \E w \in Workers, r \in Users : CStart(w, r)
    \/ \E w \in Workers : CGet(w)
    \/ \E w \in Workers : CExpire(w)
    \/ \E w \in Workers : CCount(w)
    \/ \E w \in Workers : CSet(w)
    \/ Tick

SpecConcCount == Init /\ [][NextConcCount]_vars

----------------------------------------------------------------------------
\* The read-then-write text of CreateOrUpdateDecision, the one that returns
\* the previous value: First, then Create or Save, each one SQL statement,
\* run by concurrent callers.

\* a caller starts an upsert
RStart(w, a, r, v) ==
    /\ wk[w].pc = "idle"
    /\ nOps < MaxOps
    /\ nOps' = nOps + 1
    /\ wk' = [wk EXCEPT ![w] = [IdleWorker EXCEPT !.pc = "first", !.actor = a,
                                                 !.recipient = r, !.liked = v]]
    /\ UNCHANGED <<rows, now, cache, last, faults, lastPut, passedOnly, everPassed,
                   order, pager>>

\* db.First: the row of the pair or ErrRecordNotFound; with the value already
\* stored the function returns it without writing
RFirst(w) ==
    LET me == wk[w]
        found == PairState(rows, me.actor, me.recipient)
    IN  /\ me.pc = "first"
        /\ wk' = [wk EXCEPT ![w] =
                    IF found = "absent" THEN [me EXCEPT !.pc = "create", !.found = found]
                    ELSE IF (found = "like") /= me.liked
                    THEN [me EXCEPT !.pc = "save", !.found = found]
                    ELSE [me EXCEPT !.pc = "done", !.found = found,
                                    !.reported = found, !.before = found]]
        /\ UNCHANGED <<rows, now, cache, last, nOps, faults, lastPut, passedOnly,
                       everPassed, order, pager>>

\* db.Create: a plain INSERT, which the primary key refuses when the row has
\* appeared since
RCreate(w) ==
    LET me == wk[w] IN
    /\ me.pc = "create"
    /\ IF RowsOf(rows, me.actor, me.recipient) = {}
       THEN /\ rows' = rows \cup {Decision(me.actor, me.recipient, me.liked, now, now)}
            /\ wk' = [wk EXCEPT ![w].pc = "done", ![w].reported = "absent",
                                ![w].before = "absent"]
            /\ order' = Append(order, w)
       ELSE /\ wk' = [wk EXCEPT ![w].pc = "done", ![w].code = Map("other")]
            /\ UNCHANGED <<rows, order>>
    /\ UNCHANGED <<now, cache, last, nOps, faults, lastPut, passedOnly, everPassed, pager>>

\* db.Save of the row read: UPDATE by primary key with the new liked and a
\* fresh updated_at; the value read by First is returned
RSave(w) ==
    LET me == wk[w] IN
    /\ me.pc = "save"
    /\ rows' = {IF d.actor_id = me.actor /\ d.recipient_id = me.recipient
                THEN [d EXCEPT !.liked = me.liked, !.updated_at = now] ELSE d : d \in rows}
    /\ wk' = [wk EXCEPT ![w].pc = "done", ![w].reported = me.found,
                        ![w].before = PairState(rows, me.actor, me.recipient)]
    /\ order' = Append(order, w)
    /\ UNCHANGED <<now, cache, last, nOps, faults, lastPut, passedOnly, everPassed, pager>>

\* the caller has its answer and may call again
RReturn(w) ==
    /\ wk[w].pc = "done"
    /\ wk' = [wk EXCEPT ![w] = IdleWorker]
    /\ UNCHANGED <<rows, now, cache, last, nOps, faults, lastPut, passedOnly, everPassed,
                   order, pager>>

NextRTW ==
    \/ \E w \in Workers, p \in Pairs, v \in BOOLEAN : RStart(w, p[1], p[2], v)
    \/ \E w \in Workers : RFirst(w)
    \/ \E w \in Workers : RCreate(w)
    \/ \E w \in Workers : RSave(w)
    \/ \E w \in Workers : RReturn(w)
    \/ Tick

SpecRTW == Init /\ [][NextRTW]_vars

----------------------------------------------------------------------------
\* A caller paging through GetLikers while decisions are being recorded: the
\* first request carries no token, each further one the token of the previous
\* answer; PutDecision requests run between the page requests.

\* the actors whose row into r, or r's row toward them, differs between two tables
ChangedSince(rs0, rs, r) ==
    {x \in Users : \/ RowsOf(rs0, x, r) /= RowsOf(rs, x, r)
                   \/ RowsOf(rs0, r, x) /= RowsOf(rs, r, x)}

PagerAfter(pg, res, pages) ==
    [pg EXCEPT !.phase = IF res.next.kind = "nil" THEN "done" ELSE "paging",
               !.token = res.next,
               !.seen = pg.seen \o ActorsOf(res.decisions),
               !.pages = pages,
               !.changed = pg.changed \cup ChangedSince(pg.rows0, rows, pg.recipient)]

\* the first page request
PageStart(r, limit) ==
    /\ pager.phase = "idle"
    /\ pager' = PagerAfter([NoPager EXCEPT !.recipient = r, !.limit = limit, !.rows0 = rows],
                           GetLikers(rows, r, NilToken, limit, Nil), 1)
    /\ UNCHANGED <<rows, now, cache, last, nOps, faults, lastPut, passedOnly, everPassed,
                   wk, order>>

\* a further page request, with the token the previous answer gave
PageNext ==
    /\ pager.phase = "paging"
    /\ pager.pages < MaxPages
    /\ pager' = PagerAfter(pager,
                           GetLikers(rows, pager.recipient, pager.token, pager.limit, Nil),
                           pager.pages + 1)
    /\ UNCHANGED <<rows, now, cache, last, nOps, faults, lastPut, passedOnly, everPassed,
                   wk, order>>

\* a PutDecision request of another caller, all of whose calls succeed
PagingPut ==
    \E p \in Pairs, v \in BOOLEAN : PutDecision(p[1], p[2], v, Nil, TRUE, TRUE, Nil)

NextPaging ==
    \/ PagingPut
    \/ \E r \in Users, limit \in Limits : PageStart(r, limit)
    \/ PageNext
    \/ Tick

SpecPaging == Init /\ [][NextPaging]_vars

----------------------------------------------------------------------------
\* The cursor codec on its own: a cursor is encoded and the token decoded, or
\* a token that is no encoding of a cursor is decoded.

\* cursors with ActorID in 0..MaxCursor and UpdatedUnix in -1..MaxCursor
MaxCursor == 5

CursorInputs == {Cursor(a, u) : a \in 0..MaxCursor, u \in -1..MaxCursor}

OtherTokens ==
    {NilToken, EmptyToken, GarbageToken, TruncatedToken, NullJSONToken, ForeignObjectToken}

InitCodec ==
    /\ rows = {}
    /\ now = 1
    /\ cache = [k \in Users |-> NoEntry]
    /\ \/ \E c \in CursorInputs : last = [NoResponse EXCEPT !.op = "cursor", !.cursor = c]
       \/ \E t \in OtherTokens : last = [NoResponse EXCEPT !.op = "token", !.next = t]
    /\ nOps = 0
    /\ faults = 0
    /\ lastPut = [p \in Pairs |-> "none"]
    /\ passedOnly = {}
    /\ wk = [w \in Workers |-> IdleWorker]
    /\ order = <<>>
    /\ pager = NoPager
    /\ everPassed = {}

\* pagination.Encode of the cursor
EncodeCursor ==
    /\ last.op = "cursor"
    /\ last' = [last EXCEPT !.op = "encoded", !.next = Encode(last.cursor)]
    /\ UNCHANGED <<rows, now, cache, nOps, faults, lastPut, passedOnly, everPassed, wk, order, pager>>

\* pagination.Decode of the token
DecodeToken ==
    /\ last.op \in {"encoded", "token"}
    /\ last' = [last EXCEPT !.op = IF last.op = "encoded" THEN "roundtrip" ELSE "decoded",
                            !.decoded = Decode(last.next).cursor,
                            !.err = Decode(last.next).err]
    /\ UNCHANGED <<rows, now, cache, nOps, faults, lastPut, passedOnly, everPassed, wk, order, pager>>

NextCodec ==
    \/ EncodeCursor
    \/ DecodeToken

SpecCodec == InitCodec /\ [][NextCodec]_vars

----------------------------------------------------------------------------
\* A caller paging through a listing of a fixed table: the first request
\* carries no token, each further one the token the previous response gave.

PageOf(rs, t, new, token, limit) ==
    IF new THEN GetNewLikers(rs, t, token, limit, Nil)
    ELSE GetLikers(rs, t, token, limit, Nil)

RECURSIVE Follow(_, _, _, _, _, _, _)
Follow(rs, t, new, token, limit, more, acc) ==
    LET res == PageOf(rs, t, new, token, limit)
        got == acc \o res.decisions
    IN  IF res.next.kind = "nil" THEN [done |-> TRUE, decisions |-> got]
        ELSE IF more = 0 THEN [done |-> FALSE, decisions |-> got]
        ELSE Follow(rs, t, new, res.next, limit, more - 1, got)

\* every page of the listing, in the order received; done tells whether a
\* response without a next token was reached within MaxPages further requests
ListAll(rs, t, new, limit) == Follow(rs, t, new, NilToken, limit, MaxPages, <<>>)

ActorSet(decisions) == {decisions[i].actor_id : i \in 1..Len(decisions)}

\* the tokens a query can be given without failing
GoodTokens == {NilToken, EmptyToken} \cup CursorTokens

\* the actors on the page any token and page size select
OnSomePage(rs, t, new) ==
    UNION {ActorSet(PageOf(rs, t, new, token, limit).decisions) :
               token \in GoodTokens, limit \in Limits}

\* the number the next CountLikedYou(r) answers when its calls succeed: the
\* cached number if the key holds one that parses, else the store's count
ServedCount(c, rs, r) ==
    IF RedisGet(c, KeyForLikeCount(r), TRUE).hit /\ ParseCachedOk(c[KeyForLikeCount(r)].val)
    THEN c[KeyForLikeCount(r)].val
    ELSE CountLikers(rs, r)

LikesRow(rs, a, r) == \E d \in rs : d.actor_id = a /\ d.recipient_id = r /\ d.liked
PassRow(rs, a, r) == \E d \in rs : d.actor_id = a /\ d.recipient_id = r /\ ~ d.liked
AnyRow(rs, a, r) == \E d \in rs : d.actor_id = a /\ d.recipient_id = r

----------------------------------------------------------------------------
\* The claims.

\* C1: in every reachable state the decisions table holds at most one row for
\* each ordered pair (actor, recipient).
C1_OneRowPerPair ==
    \A a \in Users, r \in Users : Cardinality(RowsOf(rows, a, r)) <= 1

\* C1 witness: a successful PutDecision on a pair that already had a row.
C1_Witness ==
    /\ last.op = "put" /\ last.code = "OK" /\ last.prev /= "absent"
    /\ Cardinality(RowsOf(rows, last.actor, last.recipient)) = 1

\* C2: for every pair that was successfully decided, the table holds exactly
\* one row for it and its liked value is that of the most recent successful
\* PutDecision on the pair.
C2_Overwrite ==
    \A p \in Pairs :
        lastPut[p] /= "none" =>
            /\ Cardinality(RowsOf(rows, p[1], p[2])) = 1
            /\ \A d \in RowsOf(rows, p[1], p[2]) : d.liked = (lastPut[p] = "like")

\* C2 witness: a like just overwritten by a pass, one row left holding the pass.
C2_Witness ==
    /\ last.op = "put" /\ last.code = "OK" /\ last.prev = "like" /\ ~ last.liked
    /\ RowsOf(rows, last.actor, last.recipient) # {}
    /\ \A d \in RowsOf(rows, last.actor, last.recipient) : ~ d.liked

\* C3: once A has passed B, and whatever B has decided toward A since then,
\* B is on no page of GetLikers(A) and on no page of GetNewLikers(A).
C3_PermanentPass ==
    \A p \in passedOnly :
        /\ p[2] \notin OnSomePage(rows, p[1], FALSE)
        /\ p[2] \notin OnSomePage(rows, p[1], TRUE)

\* C3 witness: B has just liked A, who had passed B before.
C3_Witness ==
    /\ last.op = "put" /\ last.code = "OK" /\ last.liked
    /\ <<last.recipient, last.actor>> \in passedOnly
    /\ LikesRow(rows, last.actor, last.recipient)

\* C4: a successful PutDecision(A, B, liked) answers mutual = TRUE exactly when
\* liked and the table holds a liked row B -> A; for a pass it answers FALSE
\* and makes no HasLiked lookup. (PutDecision leaves the row B -> A alone, so
\* the table after the call decides this as well as the table before it.)
C4_Mutuality ==
    (last.op = "put" /\ last.code = "OK") =>
        /\ last.mutual = (last.liked /\ LikesRow(rows, last.recipient, last.actor))
        /\ ~ last.liked => (~ last.mutual /\ ~ last.lookup)

\* C5: for every table and target t, the actors GetLikers(t) returns over all
\* pages are exactly those with a liked row into t whom t has not passed.
C5_LikersExact ==
    \A t \in Users, limit \in Limits :
        ActorSet(ListAll(rows, t, FALSE, limit).decisions)
            = {x \in Users : LikesRow(rows, x, t) /\ ~ PassRow(rows, t, x)}

\* C6: for every table and target t, the actors GetNewLikers(t) returns over
\* all pages are exactly those with a liked row into t toward whom t has no row.
C6_NewLikersExact ==
    \A t \in Users, limit \in Limits :
        ActorSet(ListAll(rows, t, TRUE, limit).decisions)
            = {x \in Users : LikesRow(rows, x, t) /\ ~ AnyRow(rows, t, x)}

\* C7: for every table, target and page size, following the next tokens from
\* no token ends, and the rows received are the qualifying likers, each once,
\* in strictly descending (updated_at, actor_id) order.
C7_PagingStable ==
    \A t \in Users, limit \in Limits :
        LET all == ListAll(rows, t, FALSE, limit)
            seq == all.decisions
        IN  /\ all.done
            /\ Len(seq) = Cardinality({x \in Users : LikesRow(rows, x, t) /\ ~ PassRow(rows, t, x)})
            /\ ActorSet(seq) = {x \in Users : LikesRow(rows, x, t) /\ ~ PassRow(rows, t, x)}
            /\ \A i \in 1..Len(seq), j \in 1..Len(seq) :
                   i < j => \/ seq[i].updated_at > seq[j].updated_at
                            \/ /\ seq[i].updated_at = seq[j].updated_at
                               /\ seq[i].actor_id > seq[j].actor_id

\* C8: CountLikedYou(R) answers the number of actors who like R and whom R has
\* not passed, also in behaviours where no store or cache call fails.
C8_CountCorrect ==
    (faults = 0 /\ last.op = "count" /\ last.code = "OK") =>
        last.count = Cardinality({x \in Users : LikesRow(rows, x, last.recipient)
                                                /\ ~ PassRow(rows, last.recipient, x)})

\* C9: a PutDecision whose actor or recipient is not a number, or whose actor
\* is its recipient, answers InvalidArgument and changes neither the table nor
\* the cache.
C9_InvalidPutRejected ==
    [][ ( /\ nOps' = nOps + 1
          /\ last'.op = "put"
          /\ \/ last'.actor \notin Nat
             \/ last'.recipient \notin Nat
             \/ last'.actor = last'.recipient )
        => ( /\ last'.code = "InvalidArgument"
             /\ rows' = rows
             /\ cache' = cache ) ]_vars

\* C9 witness: a self-decision was refused while the table and the cache hold data.
C9_Witness ==
    /\ last.op = "put" /\ last.code = "InvalidArgument"
    /\ last.actor = last.recipient /\ last.actor \in Nat
    /\ rows # {}
    /\ \E k \in Users : cache[k].present

\* C10: when two concurrent PutDecision requests on the same pair have both
\* returned, both succeeded, the table holds exactly one row for the pair, and
\* its liked value is the one written by the upsert that committed last.
C10_ConcurrentUpserts ==
    ( /\ wk[1].pc = "done" /\ wk[2].pc = "done"
      /\ wk[1].actor /= wk[1].recipient
      /\ wk[1].actor = wk[2].actor /\ wk[1].recipient = wk[2].recipient )
    => /\ wk[1].code = "OK" /\ wk[2].code = "OK"
       /\ Len(order) = 2
       /\ Cardinality(RowsOf(rows, wk[1].actor, wk[1].recipient)) = 1
       /\ \A d \in RowsOf(rows, wk[1].actor, wk[1].recipient) :
              d.liked = wk[order[2]].liked

\* C10 witness: both requests on a previously unseen pair are done, they wrote
\* different values, and worker 1 committed last.
C10_Witness ==
    /\ wk[1].pc = "done" /\ wk[2].pc = "done"
    /\ wk[1].actor = wk[2].actor /\ wk[1].recipient = wk[2].recipient
    /\ wk[1].liked /= wk[2].liked
    /\ order = <<2, 1>>
    /\ \E d \in rows : d.actor_id = wk[1].actor /\ d.recipient_id = wk[1].recipient
                       /\ d.liked = wk[1].liked

\* the actors who like r and whom r has not passed
LikersOf(rs, r) == {x \in Users : LikesRow(rs, x, r) /\ ~ PassRow(rs, r, x)}

\* C11: a successful PutDecision on a pair that already has a row leaves the
\* row with the liked value of the request, with created_at as it was, and
\* with a newer updated_at whenever the clock has moved on since the row was
\* last written; so also when the request repeats the stored liked value.
C11_UpsertBumps ==
    [][ ( /\ nOps' = nOps + 1
          /\ last'.op = "put" /\ last'.code = "OK" /\ last'.prev /= "absent" )
        => \A d \in RowsOf(rows, last'.actor, last'.recipient) :
               \E e \in RowsOf(rows', last'.actor, last'.recipient) :
                   /\ e.liked = last'.liked
                   /\ e.created_at = d.created_at
                   /\ now > d.updated_at => e.updated_at > d.updated_at ]_vars

C13_CacheErrorsIgnored ==
    [][ ( /\ nOps' = nOps + 1
          /\ last'.op = "put" /\ last'.cacheErr )
        => ( /\ last'.code = "OK"
             /\ Cardinality(RowsOf(rows', last'.actor, last'.recipient)) = 1
             /\ \A d \in RowsOf(rows', last'.actor, last'.recipient) :
                    /\ d.liked = last'.liked
                    /\ \/ d \in rows
                       \/ \E e \in rows : d = [e EXCEPT !.liked = last'.liked]
                       \/ /\ RowsOf(rows, last'.actor, last'.recipient) = {}
                          /\ d.created_at = now /\ d.updated_at = now
             /\ rows' \ RowsOf(rows', last'.actor, last'.recipient)
                    = rows \ RowsOf(rows, last'.actor, last'.recipient)
             /\ ~ last'.storeFailed =>
                    last'.mutual = ( /\ last'.liked
                                     /\ LikesRow(rows', last'.recipient, last'.actor) ) ) ]_vars

\* C13 witness: a like whose cache update failed was stored and answered as mutual.
C13_Witness ==
    /\ last.op = "put" /\ last.code = "OK" /\ last.cacheErr
    /\ last.liked /\ last.mutual
    /\ LikesRow(rows, last.actor, last.recipient)

\* C14: a request one of whose store calls failed (upsert, HasLiked, list
\* query, count query) answers an error.
C14_StoreErrorsPropagate ==
    last.storeFailed => last.code /= "OK"

\* C15: decoding the encoding of a cursor succeeds and gives that cursor.
C15_RoundTrip ==
    last.op = "roundtrip" => (last.err = Nil /\ last.decoded = last.cursor)

\* C15 witness: a cursor with UpdatedUnix = 0, whose encoding carries no
\* updated_unix, was encoded and decoded.
C15_Witness ==
    /\ last.op = "roundtrip"
    /\ last.cursor.UpdatedUnix = 0 /\ last.cursor.ActorID > 0
    /\ DOMAIN last.next.json = {"actor_id"}
    /\ last.decoded = last.cursor

\* a token that is the base64 of a JSON object with the keys of a Cursor
IsCursorObject(token) ==
    /\ token.kind = "b64json"
    /\ "actor_id" \in DOMAIN token.json
    /\ DOMAIN token.json \subseteq {"actor_id", "updated_unix"}

\* C16: decoding no token or the empty token gives the zero cursor and no
\* error; decoding any other token that is not the base64 of a JSON cursor
\* object gives an error.
C16_DecodeRejects ==
    last.op = "decoded" =>
        /\ last.next.kind \in {"nil", "empty"} =>
               (last.err = Nil /\ last.decoded = Cursor(0, 0))
        /\ (last.next.kind \notin {"nil", "empty"} /\ ~ IsCursorObject(last.next)) =>
               last.err /= Nil

\* C17: a CountLikedYou that finds a non-negative number under the key answers
\* that number without a store query; one that finds no key or a negative
\* number, and whose store query and cache calls succeed, answers the number of
\* likers the table holds and leaves the key holding that number.
C17_GetOrCompute ==
    last.op = "count" =>
        /\ last.got = "value" =>
               /\ last.code = "OK" /\ last.fromCache
               /\ last.count = cache[last.recipient].val
        /\ (last.got \in {"absent", "negative"} /\ last.code = "OK" /\ ~ last.cacheErr) =>
               /\ ~ last.fromCache
               /\ last.count = Cardinality(LikersOf(rows, last.recipient))
               /\ cache[last.recipient].present
               /\ cache[last.recipient].val = last.count

\* C17 witness: the key held a negative number, the count came from the table
\* and the key now holds it.
C17_Witness ==
    /\ last.op = "count" /\ last.got = "negative" /\ last.code = "OK"
    /\ ~ last.fromCache
    /\ cache[last.recipient].present /\ cache[last.recipient].val = last.count

\* C18: a successful PutDecision whose cache calls succeed leaves the
\* recipient's counter one higher for a like and one lower for a pass than it
\* was (an absent key counting as 0), whatever the table held for the pair,
\* and leaves every other key alone.
C18_UnconditionalAdjust ==
    [][ ( /\ nOps' = nOps + 1
          /\ last'.op = "put" /\ last'.code = "OK" /\ ~ last'.cacheErr )
        => ( /\ cache'[last'.recipient].present
             /\ cache'[last'.recipient].val
                    = (IF cache[last'.recipient].present
                       THEN cache[last'.recipient].val ELSE 0)
                      + (IF last'.liked THEN 1 ELSE -1)
             /\ \A k \in Users \ {last'.recipient} : cache'[k] = cache[k] ) ]_vars

\* C18 witness: a like repeated on a pair that already held a like raised the
\* counter to 2.
C18_Witness ==
    /\ last.op = "put" /\ last.code = "OK" /\ ~ last.cacheErr
    /\ last.prev = "like" /\ last.liked
    /\ cache[last.recipient].val = 2

\* the rows of a listing of t, and those strictly after a position
Qualifying(rs, t, new) ==
    {d \in rs : /\ d.recipient_id = t /\ d.liked
                /\ ~ PassRow(rs, t, d.actor_id)
                /\ new => ~ AnyRow(rs, t, d.actor_id)}

StrictlyAfter(S, a, u) ==
    {d \in S : \/ d.updated_at < u
               \/ d.updated_at = u /\ d.actor_id < a}

\* what C19 asks of the page a query answers when afterCursor are the rows
\* that qualify after the cursor it was given
PageProbeOk(res, afterCursor, limit) ==
    /\ res.err = Nil
    /\ Len(res.decisions) <= limit
    /\ (res.next.kind /= "nil") = (Cardinality(afterCursor) >= limit + 1)
    /\ res.next.kind /= "nil" =>
           /\ Len(res.decisions) = limit
           /\ res.next = Encode(Cursor(res.decisions[limit].actor_id,
                                       res.decisions[limit].updated_at))

\* C19: for every table, target, page size >= 1 and cursor (none, or the
\* position of some row), the page has at most limit rows, a next token comes
\* exactly when at least limit + 1 rows qualify after the cursor, and it
\* encodes the last row of the page.
C19_PageProbe ==
    \A t \in Users, new \in BOOLEAN, limit \in Limits :
        /\ PageProbeOk(PageOf(rows, t, new, NilToken, limit),
                       Qualifying(rows, t, new), limit)
        /\ \A a \in Users, u \in 1..MaxTime :
               PageProbeOk(PageOf(rows, t, new, Encode(Cursor(a, u)), limit),
                           StrictlyAfter(Qualifying(rows, t, new), a, u), limit)

\* C20: GetLikers and GetNewLikers called with limit <= 0 answer a validation error.
C20_LimitValidated ==
    \A t \in Users, new \in BOOLEAN, limit \in (0 - MaxLimit)..0 :
        PageOf(rows, t, new, NilToken, limit).err = "ValidationError"

\* C21: a list request with a valid recipient and a pagination token that is
\* not base64 or not JSON answers an error that is neither success nor the
\* Internal code of a store failure, and makes no store query.
C21_InvalidCursorKind ==
    (last.op \in {"list", "listnew"} /\ last.recipient \in Nat /\ last.malformed) =>
        /\ last.code \notin {"OK", "Internal"}
        /\ ~ last.storeFailed

\* C23 as stated: once a pass A -> B has been stored, B is on no page of
\* GetLikers(A) or GetNewLikers(A) in any later state.
C23_PassFinal ==
    \A p \in everPassed :
        /\ p[2] \notin OnSomePage(rows, p[1], FALSE)
        /\ p[2] \notin OnSomePage(rows, p[1], TRUE)

\* C23: while the most recent successful PutDecision of A toward B is a pass,
\* B is on no page of GetLikers(A) or GetNewLikers(A), whatever other
\* decisions have been recorded since.
C23_PassWhileStored ==
    \A p \in Pairs :
        lastPut[p] = "pass" =>
            /\ p[2] \notin OnSomePage(rows, p[1], FALSE)
            /\ p[2] \notin OnSomePage(rows, p[1], TRUE)

\* C23 witness: A has just passed B, who likes A.
C23_Witness ==
    /\ last.op = "put" /\ last.code = "OK" /\ ~ last.liked
    /\ lastPut[<<last.actor, last.recipient>>] = "pass"
    /\ LikesRow(rows, last.recipient, last.actor)

\* C24: for every table and recipient t, CountLikers(t) is the number of
\* actors with a liked row into t whom t has not passed, and these are the
\* actors GetLikers(t) returns on one page large enough for all of them.
C24_CountIsListSize ==
    \A t \in Users :
        /\ CountLikers(rows, t) = Cardinality(LikersOf(rows, t))
        /\ ActorSet(GetLikers(rows, t, NilToken, MaxUser + 1, Nil).decisions)
               = LikersOf(rows, t)
        /\ Len(GetLikers(rows, t, NilToken, MaxUser + 1, Nil).decisions)
               = CountLikers(rows, t)

\* C24 witness: a recipient with a counted liker and a liker it has passed.
C24_Witness ==
    \E t \in Users :
        /\ CountLikers(rows, t) >= 1
        /\ \E x \in Users : LikesRow(rows, x, t) /\ PassRow(rows, t, x)

\* C25: for every table, target, page size and cursor (a, u), the page holds
\* only rows strictly after (a, u) in the order, and holds every such row
\* unless it is full.
C25_StrictlyAfterCursor ==
    \A t \in Users, new \in BOOLEAN, limit \in Limits, a \in Users, u \in 1..MaxTime :
        LET res == PageOf(rows, t, new, Encode(Cursor(a, u)), limit)
            after == StrictlyAfter(Qualifying(rows, t, new), a, u)
        IN  /\ res.err = Nil
            /\ \A i \in 1..Len(res.decisions) : res.decisions[i] \in after
            /\ \/ Len(res.decisions) = limit
               \/ \A d \in after : \E i \in 1..Len(res.decisions) : res.decisions[i] = d

\* the code the taxonomy gives a store error
TaxonomyOf(err) ==
    CASE err = "DeadlineExceeded" -> "DeadlineExceeded"
      [] err = "Canceled" -> "Canceled"
      [] err = "ErrRecordNotFound" -> "NotFound"
      [] OTHER -> "Internal"

\* C27: a request one of whose store calls failed answers the code the
\* taxonomy gives that error (deadline exceeded, canceled, not found, else
\* Internal), never success; no error maps to success.
C27_Taxonomy ==
    /\ Map(Nil) = "OK"
    /\ last.storeErr /= Nil => last.code = TaxonomyOf(last.storeErr)

\* C28: in every reachable state every counter key that is present has the
\* full time-to-live of one hour.
C28_TTLAlwaysSet ==
    \A k \in Users : cache[k].present => cache[k].ttl = Hour

\* C29: no step removes the row of a pair: every pair with a row before a
\* step has a row after it.
C29_RowsNeverDeleted ==
    [][ \A d \in rows : AnyRow(rows', d.actor_id, d.recipient_id) ]_vars

\* C29 witness: a pass was overwritten by a like and the table still holds
\* the rows of two pairs.
C29_Witness ==
    /\ last.op = "put" /\ last.code = "OK" /\ last.prev = "pass" /\ last.liked
    /\ AnyRow(rows, last.actor, last.recipient)
    /\ Cardinality(rows) >= 2

\* C22: while a caller pages through GetLikers(R) and decisions are recorded
\* between its requests, no actor comes on two pages, and once an answer
\* without a next token has come, every actor who qualified at the first
\* request and whose row into R and R's row toward whom were the same at
\* every page request has been returned.
C22_StableCursoring ==
    /\ \A i \in 1..Len(pager.seen), j \in 1..Len(pager.seen) :
           i /= j => pager.seen[i] /= pager.seen[j]
    /\ pager.phase = "done" =>
           \A x \in LikersOf(pager.rows0, pager.recipient) \ pager.changed :
               \E i \in 1..Len(pager.seen) : pager.seen[i] = x

\* whether the upsert of worker w has committed
Committed(w) == \E i \in 1..Len(order) : order[i] = w

\* C26: a PutDecision request adjusts the cache only after its upsert has
\* committed and asks HasLiked only after that; a request whose upsert did
\* not commit ends with an error and without a cache adjustment.
C26_Sequencing ==
    \A w \in Workers :
        /\ wk[w].adjusted => Committed(w)
        /\ wk[w].looked => (Committed(w) /\ wk[w].adjusted)
        /\ (wk[w].pc = "done" /\ ~ Committed(w)) =>
               (wk[w].code /= "OK" /\ ~ wk[w].adjusted /\ ~ wk[w].looked)
        /\ (\A v \in Workers : ~ Committed(v)) =>
               \A k \in Users : ~ cache[k].present

\* C26 witness: one request failed in its upsert and the other, toward the
\* same recipient, went through; the counter holds the one adjustment.
C26_Witness ==
    /\ wk[1].pc = "done" /\ wk[1].code \notin {"OK", "InvalidArgument"}
    /\ wk[2].pc = "done" /\ wk[2].code = "OK" /\ wk[2].liked
    /\ wk[1].recipient = wk[2].recipient
    /\ ~ wk[1].adjusted /\ wk[2].adjusted
    /\ cache[wk[2].recipient].val = 1

\* C30: an upsert that succeeds reports 'absent' when the pair had no row
\* immediately before its write took effect, and otherwise the liked value
\* the row held then, also when upserts on the pair run concurrently.
C30_ReportsPrevious ==
    \A w \in Workers :
        (wk[w].pc = "done" /\ wk[w].code = "OK") => wk[w].reported = wk[w].before

\* the pairs and liked values a table holds
Edges(rs) == {<<d.actor_id, d.recipient_id, d.liked>> : d \in rs}

\* C31: the upsert of a PutDecision request can run whatever the position of
\* the other request, succeeds, and leaves every row of another pair as it
\* was; when two concurrent requests on different pairs have both returned,
\* both succeeded and the table holds exactly their two rows, with their
\* liked values, in whatever order their steps ran.
C31_IndependentPairs ==
    [][ /\ \A w \in Workers :
               /\ wk[w].pc = "upsert" => ENABLED WUpsert(w)
               /\ (wk[w].pc = "upsert" /\ wk'[w].pc /= "upsert") =>
                      /\ wk'[w].pc = "adjust" /\ wk'[w].code = "OK"
                      /\ rows' \ RowsOf(rows', wk[w].actor, wk[w].recipient)
                             = rows \ RowsOf(rows, wk[w].actor, wk[w].recipient)
        /\ ( /\ wk'[1].pc = "done" /\ wk'[2].pc = "done"
             /\ wk'[1].actor /= wk'[1].recipient /\ wk'[2].actor /= wk'[2].recipient
             /\ <<wk'[1].actor, wk'[1].recipient>> /= <<wk'[2].actor, wk'[2].recipient>> )
           => /\ wk'[1].code = "OK" /\ wk'[2].code = "OK"
              /\ Len(order') = 2
              /\ Edges(rows') = {<<wk'[w].actor, wk'[w].recipient, wk'[w].liked>> :
                                     w \in Workers} ]_vars

\* C31 witness: a like A -> B and a pass B -> A, served concurrently, are both
\* done; the pass committed first and the table holds both rows.
C31_Witness ==
    /\ wk[1].pc = "done" /\ wk[2].pc = "done"
    /\ wk[1].actor = wk[2].recipient /\ wk[1].recipient = wk[2].actor
    /\ wk[1].liked /\ ~ wk[2].liked
    /\ order = <<2, 1>>
    /\ Edges(rows) = {<<wk[1].actor, wk[1].recipient, TRUE>>,
                      <<wk[2].actor, wk[2].recipient, FALSE>>}

\* the least number of requests that can carry n rows in pages of limit rows
\* (one request when there is no row)
PagesFor(n, limit) ==
    IF n = 0 THEN 1 ELSE (n + limit - 1) \div limit

\* C32: for every table, recipient and page size, following the next tokens
\* of GetLikers and of GetNewLikers from no token reaches an answer without a
\* next token within ceil(N / limit) requests, N being the number of
\* qualifying rows, also when a row returned has actor id 0.
C32_PagingTerminates ==
    \A t \in Users, new \in BOOLEAN, limit \in Limits :
        Follow(rows, t, new, NilToken, limit,
               PagesFor(Cardinality(Qualifying(rows, t, new)), limit) - 1, <<>>).done

\* C33: when two concurrent PutDecision requests, a like A -> B and a like
\* B -> A, have both returned success, at least one of them answered
\* mutual = TRUE.
C33_RacingLikes ==
    ( /\ wk[1].pc = "done" /\ wk[2].pc = "done"
      /\ wk[1].code = "OK" /\ wk[2].code = "OK"
      /\ wk[1].liked /\ wk[2].liked
      /\ wk[1].actor /= wk[1].recipient
      /\ wk[1].actor = wk[2].recipient /\ wk[1].recipient = wk[2].actor )
    => (wk[1].mutual \/ wk[2].mutual)

\* C34: after a successful PutDecision toward a recipient whose counter key
\* was absent, the next CountLikedYou of that recipient answers the number of
\* likers the table holds.
C34_AbsentKeyRederived ==
    [][ ( /\ nOps' = nOps + 1
          /\ last'.op = "put" /\ last'.code = "OK"
          /\ ~ cache[KeyForLikeCount(last'.recipient)].present )
        => ServedCount(cache', rows', last'.recipient)
               = CountLikers(rows', last'.recipient) ]_vars

\* C35: when a CountLikedYou(R) that missed the cache and a successful
\* PutDecision toward R, served concurrently, have both returned, the counter
\* key of R holds the number of likers of R the table holds.
C35_CountPutRace ==
    \A w \in Workers, v \in Workers :
        ( /\ wk[w].pc = "done" /\ wk[w].counted = "miss"
          /\ wk[v].pc = "done" /\ wk[v].counted = "no" /\ wk[v].code = "OK"
          /\ wk[v].actor /= wk[v].recipient
          /\ wk[v].recipient = wk[w].recipient )
        => /\ cache[KeyForLikeCount(wk[w].recipient)].present
           /\ cache[KeyForLikeCount(wk[w].recipient)].val
                  = CountLikers(rows, wk[w].recipient)

\* C36: a successful pass R -> X, made while X is counted among the likers of
\* R and the counter of R is cached, leaves the next CountLikedYou(R) one
\* lower than it was, and lowers the next CountLikedYou(X) only if R was
\* counted among the likers of X.
C36_PassLowersOwnCount ==
    [][ ( /\ nOps' = nOps + 1
          /\ last'.op = "put" /\ last'.code = "OK" /\ ~ last'.liked
          /\ last'.recipient \in LikersOf(rows, last'.actor)
          /\ cache[KeyForLikeCount(last'.actor)].present
          /\ ParseCachedOk(cache[KeyForLikeCount(last'.actor)].val) )
        => ( /\ ServedCount(cache', rows', last'.actor)
                    = ServedCount(cache, rows, last'.actor) - 1
             /\ ServedCount(cache', rows', last'.recipient)
                    < ServedCount(cache, rows, last'.recipient)
                => last'.actor \in LikersOf(rows, last'.recipient) ) ]_vars

\* the actors a list query returns on one page large enough for all of them
ListedBy(rs, t, new) == ActorSet(PageOf(rs, t, new, NilToken, MaxUser + 1).decisions)

\* C37 as stated: for every table and recipient R the new likers are among the
\* likers, and an actor is a liker but not a new liker exactly when R has a
\* liked row toward that actor.
C37_DifferenceIsLikedBack ==
    \A t \in Users :
        /\ ListedBy(rows, t, TRUE) \subseteq ListedBy(rows, t, FALSE)
        /\ \A x \in Users :
               (x \in ListedBy(rows, t, FALSE) /\ x \notin ListedBy(rows, t, TRUE))
                   <=> LikesRow(rows, t, x)

\* C37: for every table and recipient R the new likers are among the likers,
\* and an actor GetLikers(R) returns is missing from GetNewLikers(R) exactly
\* when R has a liked row toward that actor.
C37_NewLikersSubset ==
    \A t \in Users :
        /\ ListedBy(rows, t, TRUE) \subseteq ListedBy(rows, t, FALSE)
        /\ \A x \in ListedBy(rows, t, FALSE) :
               x \notin ListedBy(rows, t, TRUE) <=> LikesRow(rows, t, x)

\* C37 witness: a recipient with a liker it has liked back and a liker it has
\* not decided on.
C37_Witness ==
    \E t \in Users, x \in Users, y \in Users :
        /\ x \in ListedBy(rows, t, FALSE) /\ x \notin ListedBy(rows, t, TRUE)
        /\ LikesRow(rows, t, x)
        /\ y \in ListedBy(rows, t, TRUE)

\* C38: a PutDecision(A, B, liked) step leaves every row of a pair other than
\* (A, B) and every counter key other than B's as they were, and a
\* ListLikedYou, ListNewLikedYou or CountLikedYou step leaves the table as it
\* was.
C38_Frame ==
    [][ /\ (nOps' = nOps + 1 /\ last'.op = "put") =>
               /\ rows' \ RowsOf(rows', last'.actor, last'.recipient)
                      = rows \ RowsOf(rows, last'.actor, last'.recipient)
               /\ \A k \in Users \ {last'.recipient} : cache'[k] = cache[k]
        /\ (nOps' = nOps + 1 /\ last'.op \in {"list", "listnew", "count"}) =>
               rows' = rows ]_vars

\* C38 witness: a successful decision A -> B was recorded while the table held
\* the row B -> A and the counter of A was cached.
C38_Witness ==
    /\ last.op = "put" /\ last.code = "OK"
    /\ AnyRow(rows, last.recipient, last.actor)
    /\ AnyRow(rows, last.actor, last.recipient)
    /\ cache[KeyForLikeCount(last.actor)].present
    /\ cache[KeyForLikeCount(last.recipient)].present

====
